---- MODULE Spec2Model ----
(***************************************************************************)
(* Model of the document-to-structured-data pipeline of                    *)
(* Health-Analysis-streamlit: src/amazon.py (chunker, OCR job              *)
(* orchestrator, extraction invoker, result reconciler) and src/st.py      *)
(* (upload flow and response normalizer).                                  *)
(*                                                                         *)
(* A Python str is a sequence of characters; '' is <<>>.  A Python dict is *)
(* a function whose DOMAIN is the set of keys present.                     *)
(***************************************************************************)
EXTENDS Integers, Sequences, FiniteSets, TLC

VARIABLES
    \* chunk_text (amazon.py:52-71): arguments, locals, position
    text, max_chunk_size, words, chunks, current_chunk, current_size, wi, cpc,
    \* wait_for_job_completion (amazon.py:21-50): the provider's job, locals,
    \* the calls made to the provider, the outcome
    job, opc, response, status, raw_text, polls, fetched, error_msg, ocr_result,
    \* process_with_bedrock_scraping / _Analysis (amazon.py:73-162, 313-394)
    task, inv_chunks, outcomes, all_results, ii, ipc,
    \* create_csv_from_results (amazon.py:165-214)
    results_in, ri, rows, patient_name, test_date, kpc,
    \* the upload flow of st.py:39-102
    file_extension, fpc, fe_raw_text, bedrock_results, shown, crash

chunkVars == <<text, max_chunk_size, words, chunks, current_chunk, current_size, wi, cpc>>
ocrVars == <<job, opc, response, status, raw_text, polls, fetched, error_msg, ocr_result>>
invVars == <<task, inv_chunks, outcomes, all_results, ii, ipc>>
csvVars == <<results_in, ri, rows, patient_name, test_date, kpc>>
feVars == <<file_extension, fpc, fe_raw_text, bedrock_results, shown, crash>>

vars == <<chunkVars, ocrVars, invVars, csvVars, feVars>>

\* the empty dict {}
EmptyDict == [k \in {} |-> k]

\* d.get(k, default)
Get(d, k, default) == IF k \in DOMAIN d THEN d[k] ELSE default

\* a component that is not running
IdleChunk ==
    /\ text = <<>> /\ max_chunk_size = 0 /\ words = <<>> /\ chunks = <<>>
    /\ current_chunk = <<>> /\ current_size = 0 /\ wi = 0 /\ cpc = "idle"

IdleOcrLocals ==
    /\ response = EmptyDict /\ status = "" /\ raw_text = <<>> /\ polls = 0
    /\ fetched = <<>> /\ error_msg = <<>> /\ ocr_result = <<>>

IdleInv ==
    /\ task = "" /\ inv_chunks = <<>> /\ outcomes = <<>> /\ all_results = <<>>
    /\ ii = 0 /\ ipc = "idle"

IdleCsv ==
    /\ results_in = <<>> /\ ri = 0 /\ rows = <<>>
    /\ patient_name = [bound |-> FALSE, v |-> <<>>]
    /\ test_date = [bound |-> FALSE, v |-> <<>>]
    /\ kpc = "idle"

IdleFe ==
    /\ file_extension = "" /\ fpc = "idle" /\ fe_raw_text = <<>>
    /\ bedrock_results = [kind |-> "unbound", v |-> <<>>]
    /\ shown = <<>> /\ crash = ""

(***************************************************************************)
(* Bounds of the model                                                     *)
(***************************************************************************)
MaxTextLen == 6
MaxChunkSize == 5
MaxPages == 3
MaxBlocks == 2
MaxPending == 1
MaxChunks == 3
MaxItems == 2
MaxResults == 2
MaxGroups == 2
MaxTests == 2

(***************************************************************************)
(* Strings                                                                 *)
(***************************************************************************)
Alphabet == {"a", "b", " ", "\n"}

\* str.split() with no separator splits on runs of whitespace
IsSpace(c) == c \in {" ", "\n"}

Strings(n) == UNION {[1..k -> Alphabet] : k \in 0..n}

RECURSIVE SplitFrom(_, _, _)
SplitFrom(s, i, cur) ==
    IF i > Len(s)
    THEN IF cur = <<>> THEN <<>> ELSE <<cur>>
    ELSE IF IsSpace(s[i])
         THEN (IF cur = <<>> THEN <<>> ELSE <<cur>>) \o SplitFrom(s, i + 1, <<>>)
         ELSE SplitFrom(s, i + 1, Append(cur, s[i]))

\* text.split()
Split(s) == SplitFrom(s, 1, <<>>)

\* ' '.join(ws)
RECURSIVE Join(_)
Join(ws) ==
    IF ws = <<>> THEN <<>>
    ELSE IF Len(ws) = 1 THEN ws[1]
    ELSE ws[1] \o <<" ">> \o Join(Tail(ws))

(***************************************************************************)
(* chunk_text                                                              *)
(***************************************************************************)
\* a budget under which the word does not fit even though it would
Overflows_NoSeparator(size, word, max) == size + Len(word) > max

\* amazon.py:60, left conjunct
Overflows(size, word, max) == size + Len(word) + 1 > max

InitChunk ==
    /\ text \in Strings(MaxTextLen)
    /\ max_chunk_size \in 0..MaxChunkSize
    /\ words = <<>>
    /\ chunks = <<>>
    /\ current_chunk = <<>>
    /\ current_size = 0
    /\ wi = 0
    /\ cpc = "entry"
    /\ job = EmptyDict /\ opc = "idle" /\ IdleOcrLocals
    /\ IdleInv /\ IdleCsv /\ IdleFe

\* amazon.py:54-57
SplitText ==
    /\ cpc = "entry"
    /\ words' = Split(text)
    /\ chunks' = <<>>
    /\ current_chunk' = <<>>
    /\ current_size' = 0
    /\ wi' = 1
    /\ cpc' = "loop"
    /\ UNCHANGED <<text, max_chunk_size>>
    /\ UNCHANGED <<ocrVars, invVars, csvVars, feVars>>

\* a close that forgets the word that did not fit
CloseChunk_DropWord ==
    /\ cpc = "loop"
    /\ wi <= Len(words)
    /\ Overflows(current_size, words[wi], max_chunk_size) /\ current_chunk # <<>>
    /\ chunks' = Append(chunks, Join(current_chunk))
    /\ current_chunk' = <<>>
    /\ current_size' = 0
    /\ wi' = wi + 1
    /\ UNCHANGED <<text, max_chunk_size, words, cpc>>
    /\ UNCHANGED <<ocrVars, invVars, csvVars, feVars>>

\* amazon.py:59-63
CloseChunk ==
    /\ cpc = "loop"
    /\ wi <= Len(words)
    /\ Overflows(current_size, words[wi], max_chunk_size) /\ current_chunk # <<>>
    /\ chunks' = Append(chunks, Join(current_chunk))
    /\ current_chunk' = <<words[wi]>>
    /\ current_size' = Len(words[wi])
    /\ wi' = wi + 1
    /\ UNCHANGED <<text, max_chunk_size, words, cpc>>
    /\ UNCHANGED <<ocrVars, invVars, csvVars, feVars>>

\* amazon.py:59-60, 64-66
AppendWord ==
    /\ cpc = "loop"
    /\ wi <= Len(words)
    /\ ~(Overflows(current_size, words[wi], max_chunk_size) /\ current_chunk # <<>>)
    /\ current_chunk' = Append(current_chunk, words[wi])
    /\ current_size' = current_size + Len(words[wi]) + 1
    /\ wi' = wi + 1
    /\ UNCHANGED <<text, max_chunk_size, words, chunks, cpc>>
    /\ UNCHANGED <<ocrVars, invVars, csvVars, feVars>>

\* amazon.py:68-71
FlushAndReturn ==
    /\ cpc = "loop"
    /\ wi > Len(words)
    /\ chunks' = IF current_chunk # <<>> THEN Append(chunks, Join(current_chunk)) ELSE chunks
    /\ cpc' = "returned"
    /\ UNCHANGED <<text, max_chunk_size, words, current_chunk, current_size, wi>>
    /\ UNCHANGED <<ocrVars, invVars, csvVars, feVars>>

NextChunk ==
    \/ SplitText
    \/ CloseChunk
    \/ AppendWord
    \/ FlushAndReturn

SpecChunk == InitChunk /\ [][NextChunk]_vars

(***************************************************************************)
(* Chunker properties                                                      *)
(***************************************************************************)
\* the whitespace-normalized text, computed character by character:
\* leading and trailing whitespace removed, every inner run one space
RECURSIVE NormFrom(_, _, _, _)
NormFrom(s, i, out, gap) ==
    IF i > Len(s) THEN out
    ELSE IF IsSpace(s[i]) THEN NormFrom(s, i + 1, out, out # <<>>)
    ELSE IF gap THEN NormFrom(s, i + 1, out \o <<" ", s[i]>>, FALSE)
    ELSE NormFrom(s, i + 1, Append(out, s[i]), FALSE)

Normalized(s) == NormFrom(s, 1, <<>>, FALSE)

RECURSIVE WordsOfAll(_)
WordsOfAll(cs) == IF cs = <<>> THEN <<>> ELSE Split(cs[1]) \o WordsOfAll(Tail(cs))

\* C2: when chunk_text has returned, its chunks joined by single spaces are
\* the whitespace-normalized input, and the words of the chunks, chunk by
\* chunk, are the words of the input in order (none dropped, duplicated,
\* reordered or split across two chunks).
C2_RoundTrip ==
    cpc = "returned" =>
        /\ Join(chunks) = Normalized(text)
        /\ WordsOfAll(chunks) = Split(text)

\* a run that split the text into at least two chunks, one of several words
C2_Witness ==
    /\ cpc = "returned"
    /\ Len(chunks) >= 2
    /\ \E k \in 1..Len(chunks) : Len(Split(chunks[k])) >= 2
    /\ Len(text) > Len(Normalized(text))

\* C3: every chunk returned by chunk_text is at most max_chunk_size long,
\* unless it is exactly one word that is itself longer than max_chunk_size.
C3_ChunkBound ==
    cpc = "returned" =>
        \A k \in 1..Len(chunks) :
            \/ Len(chunks[k]) <= max_chunk_size
            \/ Len(Split(chunks[k])) = 1 /\ Len(Split(chunks[k])[1]) > max_chunk_size

\* a run that closed a chunk and later returned a chunk of several words that
\* fills the budget exactly
C3_Witness ==
    /\ cpc = "returned"
    /\ Len(chunks) >= 2
    /\ \E k \in 1..Len(chunks) :
           Len(chunks[k]) = max_chunk_size /\ Len(Split(chunks[k])) >= 2

(***************************************************************************)
(* The OCR provider (a test double of textract.get_document_text_detection)*)
(* A job answers its first job.pending polls IN_PROGRESS and every later   *)
(* one with job.final and the first page; page k carries the token of page *)
(* k + 1 unless it is the last.  The Text of block j of page k is <<k, j>>.*)
(***************************************************************************)
BlockTypes == {"LINE", "WORD"}

PageShapes == UNION {[1..n -> BlockTypes] : n \in 0..MaxBlocks}

\* a status message comes with a failure only
Jobs ==
    {j \in [pending : 0..MaxPending,
            final : {"SUCCEEDED", "FAILED"},
            pages : UNION {[1..n -> PageShapes] : n \in 1..MaxPages},
            msg : {<<>>, <<"X">>}] :
        j.final = "SUCCEEDED" => j.msg = <<>>}

TokenOf(k) == <<"tok", k>>

BlocksOf(j, k) ==
    [b \in 1..Len(j.pages[k]) |-> [BlockType |-> j.pages[k][b], Text |-> <<k, b>>]]

PageOf(j, k) ==
    IF k < Len(j.pages)
    THEN [Blocks |-> BlocksOf(j, k), NextToken |-> TokenOf(k + 1)]
    ELSE [Blocks |-> BlocksOf(j, k)]

\* get_document_text_detection(JobId=job_id), the n-th call
GetStatus(j, n) ==
    IF n <= j.pending THEN [JobStatus |-> "IN_PROGRESS"]
    ELSE LET pg == PageOf(j, 1)
             st == [JobStatus |-> j.final]
             ms == IF j.final = "FAILED" /\ j.msg # <<>>
                   THEN [StatusMessage |-> j.msg] ELSE EmptyDict
         IN  pg @@ st @@ ms

\* get_document_text_detection(JobId=job_id, NextToken=tok)
GetPage(j, tok) == [JobStatus |-> j.final] @@ PageOf(j, tok[2])

(***************************************************************************)
(* extract_text_from_response and wait_for_job_completion                  *)
(***************************************************************************)
\* a filter that keeps every block, whatever its type
LinesOf_AllBlocks(blocks) == [b \in 1..Len(blocks) |-> blocks[b].Text]

\* amazon.py:17, 34-36, 41-43: the Text of the LINE blocks, in order
LinesOf(blocks) ==
    LET Keep(b) == b.BlockType = "LINE"
        F[n \in 0..Len(blocks)] ==
            IF n = 0 THEN <<>>
            ELSE IF Keep(blocks[n]) THEN Append(F[n - 1], blocks[n].Text) ELSE F[n - 1]
    IN  F[Len(blocks)]

\* amazon.py:15-19
extract_text_from_response(resp) == LinesOf(resp.Blocks)

\* amazon.py:27
IsTerminal(st) == st \in {"SUCCEEDED", "FAILED"}

InitOcr ==
    /\ job \in Jobs
    /\ opc = "polling"
    /\ IdleOcrLocals
    /\ IdleChunk /\ IdleInv /\ IdleCsv /\ IdleFe

\* amazon.py:23-29: one iteration of the poll loop
PollStatus ==
    /\ opc = "polling"
    /\ response' = GetStatus(job, polls + 1)
    /\ status' = response'.JobStatus
    /\ polls' = polls + 1
    /\ opc' = IF IsTerminal(status') THEN "terminal" ELSE "polling"
    /\ UNCHANGED <<job, raw_text, fetched, error_msg, ocr_result>>
    /\ UNCHANGED <<chunkVars, invVars, csvVars, feVars>>

\* amazon.py:31-36
CollectFirstPage ==
    /\ opc = "terminal"
    /\ status = "SUCCEEDED"
    /\ raw_text' = LinesOf(response.Blocks)
    /\ opc' = "draining"
    /\ UNCHANGED <<job, response, status, polls, fetched, error_msg, ocr_result>>
    /\ UNCHANGED <<chunkVars, invVars, csvVars, feVars>>

\* amazon.py:38-43: one iteration of the pagination loop
FetchNextPage ==
    /\ opc = "draining"
    /\ "NextToken" \in DOMAIN response
    /\ response' = GetPage(job, response.NextToken)
    /\ fetched' = Append(fetched, response.NextToken)
    /\ raw_text' = raw_text \o LinesOf(response'.Blocks)
    /\ UNCHANGED <<job, opc, status, polls, error_msg, ocr_result>>
    /\ UNCHANGED <<chunkVars, invVars, csvVars, feVars>>

\* amazon.py:38, 45-46
ReturnText ==
    /\ opc = "draining"
    /\ "NextToken" \notin DOMAIN response
    /\ ocr_result' = raw_text
    /\ opc' = "returned"
    /\ UNCHANGED <<job, response, status, raw_text, polls, fetched, error_msg>>
    /\ UNCHANGED <<chunkVars, invVars, csvVars, feVars>>

\* a failure that never quotes the provider's status message
RaiseJobFailed_NoDetail ==
    /\ opc = "terminal"
    /\ status # "SUCCEEDED"
    /\ error_msg' = <<"Textract job failed: ", <<"No error message provided">>>>
    /\ opc' = "raised"
    /\ UNCHANGED <<job, response, status, raw_text, polls, fetched, ocr_result>>
    /\ UNCHANGED <<chunkVars, invVars, csvVars, feVars>>

\* amazon.py:47-50
RaiseJobFailed ==
    /\ opc = "terminal"
    /\ status # "SUCCEEDED"
    /\ error_msg' = <<"Textract job failed: ",
                      Get(response, "StatusMessage", <<"No error message provided">>)>>
    /\ opc' = "raised"
    /\ UNCHANGED <<job, response, status, raw_text, polls, fetched, ocr_result>>
    /\ UNCHANGED <<chunkVars, invVars, csvVars, feVars>>

NextOcr ==
    \/ PollStatus
    \/ CollectFirstPage
    \/ FetchNextPage
    \/ ReturnText
    \/ RaiseJobFailed

SpecOcr == InitOcr /\ [][NextOcr]_vars

(***************************************************************************)
(* Orchestrator properties                                                 *)
(***************************************************************************)
\* the LINE texts of pages 1..n of the job, page by page
RECURSIVE LinesOfPages(_, _)
LinesOfPages(j, n) ==
    IF n = 0 THEN <<>>
    ELSE LinesOfPages(j, n - 1) \o
         SelectSeq([b \in 1..Len(j.pages[n]) |-> <<n, b>>], LAMBDA t : j.pages[n][t[2]] = "LINE")

\* C5: when wait_for_job_completion returns, it made one status poll after
\* the pending ones, fetched pages 2..n once each, in order, each with the
\* token the page before carried, stopped at the page without a token, and
\* returns the LINE texts of all pages (and of no other block) in page order
\* and in-page order.
C5_Pagination ==
    opc = "returned" =>
        /\ job.final = "SUCCEEDED"
        /\ polls = job.pending + 1
        /\ fetched = [k \in 1..(Len(job.pages) - 1) |-> TokenOf(k + 1)]
        /\ "NextToken" \notin DOMAIN response
        /\ ocr_result = LinesOfPages(job, Len(job.pages))

\* a job of three pages, with two LINE blocks on one page and a block of
\* another type, returned after a pending poll
C5_Witness ==
    /\ opc = "returned"
    /\ Len(job.pages) >= 3
    /\ job.pending >= 1
    /\ Len(ocr_result) >= 3
    /\ \E k \in 1..Len(job.pages) : job.pages[k] = <<"LINE", "LINE">>
    /\ \E k \in 1..Len(job.pages) : \E b \in 1..Len(job.pages[k]) : job.pages[k][b] = "WORD"

\* C6: when wait_for_job_completion has raised, the job reported FAILED on
\* the last poll made (the one after the pending polls), the message holds
\* the provider's status message or the fixed placeholder when there is none,
\* no text was collected or returned and no continuation page was fetched.
C6_JobFailure ==
    opc = "raised" =>
        /\ job.final = "FAILED"
        /\ status = "FAILED"
        /\ polls = job.pending + 1
        /\ error_msg[1] = <<"Textract job failed: ">>[1]
        /\ error_msg[2] = (IF job.msg # <<>> THEN job.msg ELSE <<"No error message provided">>)
        /\ raw_text = <<>> /\ ocr_result = <<>>
        /\ fetched = <<>>

\* a job that failed with message X after a pending poll, whose failing
\* response carried LINE blocks and a continuation token
C6_Witness ==
    /\ opc = "raised"
    /\ job.pending >= 1
    /\ job.msg = <<"X">>
    /\ "NextToken" \in DOMAIN response
    /\ \E b \in 1..Len(response.Blocks) : response.Blocks[b].BlockType = "LINE"

(***************************************************************************)
(* process_with_bedrock_scraping and process_with_bedrock_Analysis         *)
(* The two functions differ in the prompt only; task names the prompt.     *)
(* inv_chunks is the list chunk_text(text_content) returned; outcomes[k]   *)
(* is what the provider does with the call for chunk k.                    *)
(***************************************************************************)
Tasks == {"scraping", "analysis"}

CallOutcomes == {"ok", "invoke_raises", "body_not_json"}

ChunkList(n) == [k \in 1..n |-> <<"chunk", k>>]

\* json.loads(response['body'].read()) of a call that succeeded
LlmResponse(t, chunk) ==
    [content |-> <<[type |-> "text", text |-> <<t>> \o chunk]>>]

InitInv ==
    /\ task \in Tasks
    /\ \E n \in 0..MaxChunks :
           /\ inv_chunks = ChunkList(n)
           /\ outcomes \in [1..n -> CallOutcomes]
    /\ all_results = <<>>
    /\ ii = 1
    /\ ipc = "loop"
    /\ job = EmptyDict /\ opc = "idle" /\ IdleOcrLocals
    /\ IdleChunk /\ IdleCsv /\ IdleFe

\* amazon.py:91-155, 331-387: an iteration whose call and decoding succeed
InvokeChunk ==
    /\ ipc = "loop"
    /\ ii <= Len(inv_chunks)
    /\ outcomes[ii] = "ok"
    /\ all_results' = Append(all_results, LlmResponse(task, inv_chunks[ii]))
    /\ ii' = ii + 1
    /\ UNCHANGED <<task, inv_chunks, outcomes, ipc>>
    /\ UNCHANGED <<chunkVars, ocrVars, csvVars, feVars>>

\* a failed chunk that ends the batch
SkipFailedChunk_Abort ==
    /\ ipc = "loop"
    /\ ii <= Len(inv_chunks)
    /\ outcomes[ii] # "ok"
    /\ ipc' = "returned"
    /\ UNCHANGED <<task, inv_chunks, outcomes, all_results, ii>>
    /\ UNCHANGED <<chunkVars, ocrVars, csvVars, feVars>>

\* amazon.py:129-159, 361-391: an iteration whose call or decoding raises
SkipFailedChunk ==
    /\ ipc = "loop"
    /\ ii <= Len(inv_chunks)
    /\ outcomes[ii] # "ok"
    /\ ii' = ii + 1
    /\ UNCHANGED <<task, inv_chunks, outcomes, all_results, ipc>>
    /\ UNCHANGED <<chunkVars, ocrVars, csvVars, feVars>>

\* amazon.py:161-162, 393-394
ReturnResults ==
    /\ ipc = "loop"
    /\ ii > Len(inv_chunks)
    /\ ipc' = "returned"
    /\ UNCHANGED <<task, inv_chunks, outcomes, all_results, ii>>
    /\ UNCHANGED <<chunkVars, ocrVars, csvVars, feVars>>

NextInv ==
    \/ InvokeChunk
    \/ SkipFailedChunk
    \/ ReturnResults

SpecInv == InitInv /\ [][NextInv]_vars

(***************************************************************************)
(* Invoker properties                                                      *)
(***************************************************************************)
\* the responses of the chunks among the first n whose call succeeds
RECURSIVE ResponsesOfOk(_)
ResponsesOfOk(n) ==
    IF n = 0 THEN <<>>
    ELSE IF outcomes[n] = "ok"
         THEN Append(ResponsesOfOk(n - 1), LlmResponse(task, inv_chunks[n]))
         ELSE ResponsesOfOk(n - 1)

\* C4: the invoker ends only by returning, after an iteration for every
\* chunk, and returns exactly the responses of the chunks whose call
\* succeeded, in submission order (the empty sequence when every call fails).
C4_FaultIsolation ==
    /\ ipc \in {"idle", "loop", "returned"}
    /\ ipc = "returned" =>
           /\ ii = Len(inv_chunks) + 1
           /\ all_results = ResponsesOfOk(Len(inv_chunks))

\* three chunks, the call for the second raises, two results are returned
C4_Witness ==
    /\ ipc = "returned"
    /\ Len(inv_chunks) = 3
    /\ outcomes = <<"ok", "invoke_raises", "ok">>
    /\ Len(all_results) = 2

(***************************************************************************)
(* LLM responses given to create_csv_from_results                          *)
(* The text of a response is a sequence of tokens: prose "p", the braces,  *)
(* and "members", everything between the outer braces of a JSON object,    *)
(* whose body is the dict it denotes.  A JSON value where an object is     *)
(* expected is a node: ty "dict" with its key/value function kv, or ty     *)
(* "str", a JSON string.  Strings are tuples naming field and position.    *)
(***************************************************************************)
Tok(c) == [ch |-> c, body |-> EmptyDict]

Members(doc) == [ch |-> "members", body |-> doc]

Str(f, r, g, t) == <<f, r, g, t>>

StrNode == [ty |-> "str", kv |-> EmptyDict]

\* the n-th object of response r lacks its optional fields when n + r is even
IsSparse(n, r) == (n + r) % 2 = 0

\* every second response wraps its JSON in prose
IsWrapped(r) == r % 2 = 0

TestNode(r, g, t) ==
    [ty |-> "dict",
     kv |-> IF IsSparse(t, r)
            THEN [test_name |-> Str("test_name", r, g, t)]
            ELSE [test_name |-> Str("test_name", r, g, t),
                  result |-> Str("result", r, g, t),
                  reference_range |-> Str("reference_range", r, g, t),
                  unit |-> Str("unit", r, g, t)]]

\* fault = <<g, t>>: test t of group g is a JSON string; t = 0: group g is
GroupNode(r, g, nT, fault) ==
    IF fault = <<g, 0>> THEN StrNode
    ELSE LET tests == [t \in 1..nT |->
                          IF fault = <<g, t>> THEN StrNode ELSE TestNode(r, g, t)]
             meta == IF IsSparse(g, r)
                     THEN [group_name |-> Str("group_name", r, g, 0)]
                     ELSE [group_name |-> Str("group_name", r, g, 0),
                           name |-> Str("name", r, g, 0),
                           date |-> Str("date", r, g, 0),
                           age |-> Str("age", r, g, 0)]
         IN  [ty |-> "dict",
              kv |-> IF nT = 0 /\ IsSparse(g, r) THEN meta
                     ELSE meta @@ [tests |-> tests]]

Doc(r, nG, nT, fault) ==
    [test_groups |-> [g \in 1..nG |-> GroupNode(r, g, nT, fault)]]

Envelope(txt) == [content |-> <<[type |-> "text", text |-> txt]>>]

JsonResponse(doc, wrap) ==
    Envelope(IF wrap
             THEN <<Tok("p"), Tok("{"), Members(doc), Tok("}"), Tok("p")>>
             ELSE <<Tok("{"), Members(doc), Tok("}")>>)

\* responses whose JSON follows the schema, with 0..MaxGroups groups
WellFormedResponses(r) ==
    {JsonResponse(Doc(r, 0, 0, <<0, 0>>), IsWrapped(r))} \cup
    {JsonResponse(Doc(r, nG, nT, <<0, 0>>), IsWrapped(r)) :
         nG \in 1..MaxGroups, nT \in 0..MaxTests}

\* responses of full size in which one group or one test is not an object
FaultyResponses(r) ==
    {JsonResponse(Doc(r, MaxGroups, MaxTests, <<g, t>>), IsWrapped(r)) :
         g \in 1..MaxGroups, t \in 0..MaxTests}

\* responses without a '{'..'}' pair in their text
NoBraceResponses ==
    {EmptyDict,
     [content |-> <<[type |-> "text"]>>],
     Envelope(<<>>),
     Envelope(<<Tok("p"), Tok("p")>>),
     Envelope(<<Tok("p"), Tok("{"), Tok("p")>>),
     Envelope(<<Tok("}"), Tok("p"), Tok("{")>>)}

\* responses that have the pair but no schema inside, or no content at all
BrokenResponses ==
    {[content |-> <<>>],
     Envelope(<<Tok("{"), Tok("p"), Tok("}")>>),
     Envelope(<<Tok("{"), Tok("p"), Tok("}"), Tok("{"),
                Members(Doc(1, 1, 1, <<0, 0>>)), Tok("}")>>)}

EmptyObjectResponse == Envelope(<<Tok("{"), Tok("}")>>)

ResponsesAt(r) ==
    WellFormedResponses(r) \cup FaultyResponses(r)
        \cup NoBraceResponses \cup BrokenResponses \cup {EmptyObjectResponse}

(***************************************************************************)
(* create_csv_from_results                                                 *)
(***************************************************************************)
Unbound == [bound |-> FALSE, v |-> <<>>]

Bound(x) == [bound |-> TRUE, v |-> x]

\* str.find(c): 0-based index of the first c, -1 when there is none
Find(txt, c) ==
    LET hits == {i \in 1..Len(txt) : txt[i].ch = c}
    IN  IF hits = {} THEN -1 ELSE (CHOOSE i \in hits : \A k \in hits : i <= k) - 1

\* str.rfind(c): 0-based index of the last c, -1 when there is none
RFind(txt, c) ==
    LET hits == {i \in 1..Len(txt) : txt[i].ch = c}
    IN  IF hits = {} THEN -1 ELSE (CHOOSE i \in hits : \A k \in hits : i >= k) - 1

\* txt[a:b]
Slice(txt, a, b) == SubSeq(txt, a + 1, b)

\* json.loads of a slice that starts with '{': a dict, or JSONDecodeError
JsonLoads(sub) ==
    IF Len(sub) = 2 /\ sub[1].ch = "{" /\ sub[2].ch = "}"
    THEN [err |-> FALSE, v |-> EmptyDict]
    ELSE IF Len(sub) = 3 /\ sub[1].ch = "{" /\ sub[2].ch = "members" /\ sub[3].ch = "}"
    THEN [err |-> FALSE, v |-> sub[2].body]
    ELSE [err |-> TRUE, v |-> EmptyDict]

\* amazon.py:176: result.get('content', [{}])[0].get('text', '')
ResponseText(result) ==
    LET content == Get(result, "content", <<EmptyDict>>)
    IN  IF content = <<>> THEN [err |-> TRUE, v |-> <<>>]
        ELSE [err |-> FALSE, v |-> Get(content[1], "text", <<>>)]

\* a reading that takes the patient's name from the group's name
GroupMeta_WrongKey(g) ==
    [group_name |-> Get(g.kv, "group_name", <<>>),
     patient_name |-> Get(g.kv, "group_name", <<>>),
     test_date |-> Get(g.kv, "date", <<>>),
     age |-> Get(g.kv, "age", <<>>)]

\* amazon.py:185-189
GroupMeta(g) ==
    [group_name |-> Get(g.kv, "group_name", <<>>),
     patient_name |-> Get(g.kv, "name", <<>>),
     test_date |-> Get(g.kv, "date", <<>>),
     age |-> Get(g.kv, "age", <<>>)]

\* amazon.py:195-205: the row written for one test
RowOf(m, test) ==
    <<m.group_name, m.patient_name, m.age, m.test_date,
      Get(test.kv, "test_name", <<>>), Get(test.kv, "result", <<>>),
      Get(test.kv, "reference_range", <<>>), Get(test.kv, "unit", <<>>)>>

\* amazon.py:193-205: rows written for the tests of a group, up to the
\* first test that is not a dict (test.get raises AttributeError)
TestRows(m, tests) ==
    LET F[n \in 0..Len(tests)] ==
            IF n = 0 THEN [rows |-> <<>>, err |-> FALSE]
            ELSE IF F[n - 1].err THEN F[n - 1]
            ELSE IF tests[n].ty # "dict" THEN [rows |-> F[n - 1].rows, err |-> TRUE]
            ELSE [rows |-> Append(F[n - 1].rows, RowOf(m, tests[n])), err |-> FALSE]
    IN  F[Len(tests)]

\* amazon.py:184-205: rows written for the groups, up to the first error,
\* and the bindings of patient_name and test_date the loop leaves behind
GroupRows(groups, pn, td) ==
    LET F[n \in 0..Len(groups)] ==
            IF n = 0 THEN [rows |-> <<>>, err |-> FALSE, pn |-> pn, td |-> td]
            ELSE IF F[n - 1].err THEN F[n - 1]
            ELSE IF groups[n].ty # "dict" THEN [F[n - 1] EXCEPT !.err = TRUE]
            ELSE LET m == GroupMeta(groups[n])
                     tr == TestRows(m, Get(groups[n].kv, "tests", <<>>))
                 IN  [rows |-> F[n - 1].rows \o tr.rows, err |-> tr.err,
                      pn |-> Bound(m.patient_name), td |-> Bound(m.test_date)]
    IN  F[Len(groups)]

\* amazon.py:174-211: the body of the loop for one result; err says the
\* except clause was entered
ProcessOne(result, pn, td) ==
    LET none == [rows |-> <<>>, err |-> FALSE, pn |-> pn, td |-> td]
        rt == ResponseText(result)
        json_start == Find(rt.v, "{")
        json_end == RFind(rt.v, "}") + 1
        parsed == JsonLoads(Slice(rt.v, json_start, json_end))
        flat == GroupRows(Get(parsed.v, "test_groups", <<>>), pn, td)
    IN  IF rt.err THEN [none EXCEPT !.err = TRUE]
        ELSE IF ~(json_start >= 0 /\ json_end > json_start)
             THEN [none EXCEPT !.err = ~pn.bound]
        ELSE IF parsed.err THEN [none EXCEPT !.err = TRUE]
        ELSE [flat EXCEPT !.err = flat.err \/ ~flat.pn.bound]

\* the lists of n responses, the r-th of them one of ResponsesAt(r)
RECURSIVE ResultLists(_)
ResultLists(n) ==
    IF n = 0 THEN {<<>>}
    ELSE {Append(rs, x) : rs \in ResultLists(n - 1), x \in ResponsesAt(n)}

InitCsv ==
    /\ \E n \in 0..MaxResults : results_in \in ResultLists(n)
    /\ ri = 1
    /\ rows = <<>>
    /\ patient_name = Unbound
    /\ test_date = Unbound
    /\ kpc = "loop"
    /\ job = EmptyDict /\ opc = "idle" /\ IdleOcrLocals
    /\ IdleChunk /\ IdleInv /\ IdleFe

\* amazon.py:173-211: one iteration of the loop over all_results
ProcessResult ==
    /\ kpc = "loop"
    /\ ri <= Len(results_in)
    /\ LET out == ProcessOne(results_in[ri], patient_name, test_date)
       IN  /\ rows' = rows \o out.rows
           /\ patient_name' = out.pn
           /\ test_date' = out.td
    /\ ri' = ri + 1
    /\ UNCHANGED <<results_in, kpc>>
    /\ UNCHANGED <<chunkVars, ocrVars, invVars, feVars>>

\* amazon.py:213-214, both names bound
ReturnCsv ==
    /\ kpc = "loop"
    /\ ri > Len(results_in)
    /\ patient_name.bound /\ test_date.bound
    /\ kpc' = "returned"
    /\ UNCHANGED <<results_in, ri, rows, patient_name, test_date>>
    /\ UNCHANGED <<chunkVars, ocrVars, invVars, feVars>>

\* amazon.py:214, patient_name never assigned: UnboundLocalError
RaiseUnboundName ==
    /\ kpc = "loop"
    /\ ri > Len(results_in)
    /\ ~(patient_name.bound /\ test_date.bound)
    /\ kpc' = "raised"
    /\ UNCHANGED <<results_in, ri, rows, patient_name, test_date>>
    /\ UNCHANGED <<chunkVars, ocrVars, invVars, feVars>>

NextCsv ==
    \/ ProcessResult
    \/ ReturnCsv
    \/ RaiseUnboundName

SpecCsv == InitCsv /\ [][NextCsv]_vars

(***************************************************************************)
(* Reconciler properties                                                   *)
(***************************************************************************)
\* the text of a response is one JSON object, possibly inside prose
IsJsonInProse(txt) ==
    \E i \in 1..Len(txt) : \E j \in (i + 1)..Len(txt) :
        /\ txt[i].ch = "{" /\ txt[j].ch = "}"
        /\ j = i + 1 \/ (j = i + 2 /\ txt[i + 1].ch = "members")
        /\ \A k \in 1..Len(txt) : (k < i \/ k > j) => txt[k].ch = "p"

\* the groups the JSON object of a response lists
SchemaGroups(result) ==
    LET txt == result.content[1].text
        at == {i \in 1..Len(txt) : txt[i].ch = "members"}
    IN  IF at = {} THEN <<>>
        ELSE LET doc == txt[CHOOSE i \in at : TRUE].body
             IN  IF "test_groups" \in DOMAIN doc THEN doc.test_groups ELSE <<>>

GroupTests(g) == IF "tests" \in DOMAIN g.kv THEN g.kv.tests ELSE <<>>

\* a response that follows the schema: every group and every test an object
WellFormed(result) ==
    /\ "content" \in DOMAIN result
    /\ result.content # <<>>
    /\ "text" \in DOMAIN result.content[1]
    /\ IsJsonInProse(result.content[1].text)
    /\ \A g \in 1..Len(SchemaGroups(result)) :
           /\ SchemaGroups(result)[g].ty = "dict"
           /\ \A t \in 1..Len(GroupTests(SchemaGroups(result)[g])) :
                  GroupTests(SchemaGroups(result)[g])[t].ty = "dict"

Field(d, k) == IF k \in DOMAIN d THEN d[k] ELSE <<>>

\* one row per test of one group, each with the group's own metadata
RowsOfGroup(g) ==
    [t \in 1..Len(GroupTests(g)) |->
        <<Field(g.kv, "group_name"), Field(g.kv, "name"), Field(g.kv, "age"),
          Field(g.kv, "date"),
          Field(GroupTests(g)[t].kv, "test_name"), Field(GroupTests(g)[t].kv, "result"),
          Field(GroupTests(g)[t].kv, "reference_range"), Field(GroupTests(g)[t].kv, "unit")>>]

RECURSIVE RowsOfGroups(_)
RowsOfGroups(gs) ==
    IF gs = <<>> THEN <<>> ELSE RowsOfGroup(gs[1]) \o RowsOfGroups(Tail(gs))

\* the rows of the well-formed responses of rs, in order; nothing for the rest
RECURSIVE RowsOfWellFormed(_)
RowsOfWellFormed(rs) ==
    IF rs = <<>> THEN <<>>
    ELSE (IF WellFormed(rs[1]) THEN RowsOfGroups(SchemaGroups(rs[1])) ELSE <<>>)
         \o RowsOfWellFormed(Tail(rs))

Ended == kpc \in {"returned", "raised"}

\* C1: a call whose input is empty or holds a response without a '{'..'}'
\* pair returns normally, and an input of such responses only yields the
\* table without data rows.
C1_NoBraceTolerated ==
    (results_in = <<>> \/ \E r \in 1..Len(results_in) : results_in[r] \in NoBraceResponses)
        => /\ kpc # "raised"
           /\ (kpc = "returned" /\ \A r \in 1..Len(results_in) : results_in[r] \in NoBraceResponses)
                  => rows = <<>>

\* C7: for well-formed responses, the rows written when the loop has ended
\* are one per test, in response, group and test order, each with the
\* group_name, name, age and date of the group that holds the test and with
\* '' for every missing field.
C7_Flattening ==
    (Ended /\ \A r \in 1..Len(results_in) : WellFormed(results_in[r]))
        => rows = RowsOfWellFormed(results_in)

\* two well-formed responses, the first of two groups of two tests each,
\* returned as rows of different patients, one of them without a name
C7_Witness ==
    /\ kpc = "returned"
    /\ Len(results_in) = 2
    /\ \A r \in 1..2 : WellFormed(results_in[r])
    /\ Len(SchemaGroups(results_in[1])) = 2
    /\ \A g \in 1..2 : Len(GroupTests(SchemaGroups(results_in[1])[g])) = 2
    /\ Len(rows) > 4
    /\ rows[1][2] = <<>> /\ rows[3][2] # <<>>
    /\ rows[5][1] # rows[1][1]

\* C10: when the loop has ended every response was processed, and a response
\* that hit a parse or structural error contributed no row: the rows are
\* those of the well-formed responses alone.
C10_ZeroRowsOnError ==
    Ended => /\ ri = Len(results_in) + 1
             /\ rows = RowsOfWellFormed(results_in)

(***************************************************************************)
(* st.py: the response normalizer (85-102)                                 *)
(***************************************************************************)
Placeholder == <<"No content found.">>

TextValues == {<<>>, <<"T">>}

\* a content array: empty, or one segment with or without its text
ContentValues ==
    {<<>>, <<[type |-> "text"]>>} \cup {<<[type |-> "text", text |-> t]>> : t \in TextValues}

\* a response object: any of the keys text and content, or neither
Items ==
    {[role |-> "assistant"]}
        \cup {[role |-> "assistant", text |-> t] : t \in TextValues}
        \cup {[role |-> "assistant", content |-> c] : c \in ContentValues}
        \cup {[role |-> "assistant", text |-> t, content |-> c] :
                  t \in TextValues, c \in ContentValues}

\* the shapes the normalizer accepts: a dict, or a list of response objects
\* (v is the list, or the dict as the only element of v)
NormalizerInputs ==
    {[kind |-> "dict", v |-> <<d>>] :
         d \in Items \cup {[results |-> <<>>]} \cup {[results |-> <<i>>] : i \in Items}}
    \cup {[kind |-> "list", v |-> l] : l \in UNION {[1..n -> Items] : n \in 0..MaxItems}}

Shown(txt) == [raised |-> "", text |-> txt]

Raised(exc) == [raised |-> exc, text |-> <<>>]

\* st.py:88-90, 96-98:
\*   item.get("text") or item.get("content")[0].get("text") or "No content found."
FirstText(item) ==
    IF "text" \in DOMAIN item /\ item.text # <<>> THEN Shown(item.text)
    ELSE IF "content" \notin DOMAIN item THEN Raised("TypeError")
    ELSE IF item.content = <<>> THEN Raised("IndexError")
    ELSE IF "text" \in DOMAIN item.content[1] /\ item.content[1].text # <<>>
         THEN Shown(item.content[1].text)
    ELSE Shown(Placeholder)

\* st.py:85-102
Normalize(br) ==
    IF br.kind = "unbound" THEN Raised("NameError")
    ELSE IF br.kind = "dict"
    THEN LET results == Get(br.v[1], "results", <<EmptyDict>>)
         IN  IF results = <<>> THEN Raised("IndexError") ELSE FirstText(results[1])
    ELSE IF br.kind = "list" /\ Len(br.v) > 0 THEN FirstText(br.v[1])
    ELSE Shown(<<"[]">>)

InitNorm ==
    /\ bedrock_results \in NormalizerInputs
    /\ fpc = "render"
    /\ file_extension = "" /\ fe_raw_text = <<>> /\ shown = <<>> /\ crash = ""
    /\ job = EmptyDict /\ opc = "idle" /\ IdleOcrLocals
    /\ IdleChunk /\ IdleInv /\ IdleCsv

\* st.py:85-102
Render ==
    /\ fpc = "render"
    /\ LET out == Normalize(bedrock_results)
       IN  IF out.raised # ""
           THEN /\ crash' = out.raised
                /\ fpc' = "crashed"
                /\ UNCHANGED shown
           ELSE /\ shown' = Append(shown, [widget |-> "markdown", text |-> out.text])
                /\ fpc' = "done"
                /\ UNCHANGED crash
    /\ UNCHANGED <<file_extension, fe_raw_text, bedrock_results>>
    /\ UNCHANGED <<chunkVars, ocrVars, invVars, csvVars>>

NextNorm == Render

SpecNorm == InitNorm /\ [][NextNorm]_vars

(***************************************************************************)
(* st.py: the run of the script for an uploaded file (39-102)              *)
(***************************************************************************)
\* st.py:37: the uploader accepts pdf files only
Extensions == {".pdf", ".PDF"}

Lower(ext) == IF ext = ".PDF" THEN ".pdf" ELSE ext

\* st.py:50, 54, 71
Dispatch(ext) ==
    IF Lower(ext) \in {".png", ".jpg", ".jpeg"} THEN "image"
    ELSE IF Lower(ext) = ".pdf" THEN "pdf"
    ELSE "unsupported"

InitFe ==
    /\ file_extension \in Extensions
    /\ job \in Jobs
    /\ fpc = "upload"
    /\ fe_raw_text = <<>>
    /\ bedrock_results = [kind |-> "unbound", v |-> <<>>]
    /\ shown = <<>>
    /\ crash = ""
    /\ opc = "idle" /\ IdleOcrLocals
    /\ IdleChunk /\ IdleInv /\ IdleCsv

\* st.py:48-49, 54-70: the file is stored, the job started, and the wait for
\* it entered
SubmitPdf ==
    /\ fpc = "upload"
    /\ Dispatch(file_extension) = "pdf"
    /\ opc' = "polling"
    /\ fpc' = "ocr"
    /\ UNCHANGED <<file_extension, fe_raw_text, bedrock_results, shown, crash>>
    /\ UNCHANGED <<job, response, status, raw_text, polls, fetched, error_msg, ocr_result>>
    /\ UNCHANGED <<chunkVars, invVars, csvVars>>

\* st.py:48-49, 56-75: the extension is not supported, or the upload or the
\* start of the job raises
ReadFails ==
    /\ fpc = "upload"
    /\ Dispatch(file_extension) \in {"pdf", "unsupported"}
    /\ shown' = Append(shown, [widget |-> "error", text |-> <<"Error reading PDF: ">>])
    /\ fe_raw_text' = <<>>
    /\ fpc' = "branch"
    /\ UNCHANGED <<file_extension, bedrock_results, crash>>
    /\ UNCHANGED <<chunkVars, ocrVars, invVars, csvVars>>

\* st.py:70: wait_for_job_completion returned
OcrReturned ==
    /\ fpc = "ocr"
    /\ opc = "returned"
    /\ fe_raw_text' = ocr_result
    /\ fpc' = "branch"
    /\ UNCHANGED <<file_extension, bedrock_results, shown, crash>>
    /\ UNCHANGED <<chunkVars, ocrVars, invVars, csvVars>>

\* st.py:70, 73-75: wait_for_job_completion raised
OcrRaised ==
    /\ fpc = "ocr"
    /\ opc = "raised"
    /\ shown' = Append(shown, [widget |-> "error",
                               text |-> <<"Error reading PDF: ">> \o error_msg])
    /\ fe_raw_text' = <<>>
    /\ fpc' = "branch"
    /\ UNCHANGED <<file_extension, bedrock_results, crash>>
    /\ UNCHANGED <<chunkVars, ocrVars, invVars, csvVars>>

\* st.py:77-80, amazon.py:328-329: the text is not empty and the analysis
\* is called; the text makes at least one chunk
CallAnalysis ==
    /\ fpc = "branch"
    /\ fe_raw_text # <<>>
    /\ task' = "analysis"
    /\ \E n \in 1..MaxChunks :
           /\ inv_chunks' = ChunkList(n)
           /\ outcomes' \in [1..n -> CallOutcomes]
    /\ all_results' = <<>>
    /\ ii' = 1
    /\ ipc' = "loop"
    /\ fpc' = "llm"
    /\ UNCHANGED <<file_extension, fe_raw_text, bedrock_results, shown, crash>>
    /\ UNCHANGED <<chunkVars, ocrVars, csvVars>>

\* st.py:80-81: process_with_bedrock_Analysis returned
AnalysisReturned ==
    /\ fpc = "llm"
    /\ ipc = "returned"
    /\ bedrock_results' = [kind |-> "list", v |-> all_results]
    /\ shown' = Append(shown, [widget |-> "subheader", text |-> <<"Analysis Report">>])
    /\ fpc' = "render"
    /\ UNCHANGED <<file_extension, fe_raw_text, crash>>
    /\ UNCHANGED <<chunkVars, ocrVars, invVars, csvVars>>

\* st.py:77: the text is empty and the analysis is skipped
SkipAnalysis ==
    /\ fpc = "branch"
    /\ fe_raw_text = <<>>
    /\ fpc' = "render"
    /\ UNCHANGED <<file_extension, fe_raw_text, bedrock_results, shown, crash>>
    /\ UNCHANGED <<chunkVars, ocrVars, invVars, csvVars>>

NextFe ==
    \/ SubmitPdf
    \/ ReadFails
    \/ PollStatus
    \/ CollectFirstPage
    \/ FetchNextPage
    \/ ReturnText
    \/ RaiseJobFailed
    \/ OcrReturned
    \/ OcrRaised
    \/ CallAnalysis
    \/ InvokeChunk
    \/ SkipFailedChunk
    \/ ReturnResults
    \/ AnalysisReturned
    \/ SkipAnalysis
    \/ Render

SpecFe == InitFe /\ [][NextFe]_vars

(***************************************************************************)
(* Front-end properties                                                    *)
(***************************************************************************)
\* the input is empty, or its first response has neither text field
LacksText(br) ==
    \/ br.kind = "list" /\ br.v = <<>>
    \/ br.kind = "list" /\ br.v # <<>> /\ "text" \notin DOMAIN br.v[1]
           /\ ("content" \notin DOMAIN br.v[1] \/ br.v[1].content \in {<<>>, <<[type |-> "text"]>>})
    \/ br.kind = "dict" /\ "text" \notin DOMAIN br.v[1]
           /\ ("content" \notin DOMAIN br.v[1]
                   \/ br.v[1].content \in {<<>>, <<[type |-> "text"]>>})
           /\ "results" \notin DOMAIN br.v[1]

\* C8: the normalizer never raises, what it shows is never the empty string,
\* and it shows the placeholder when the input is empty or has no text field.
C8_NormalizerTotal ==
    /\ fpc # "crashed"
    /\ fpc = "done" =>
           /\ shown[Len(shown)].text # <<>>
           /\ LacksText(bedrock_results) => shown[Len(shown)].text = Placeholder

\* C9: the run for an uploaded file never ends in an uncaught exception, and
\* bedrock_results is assigned whenever the rendering step is reached.
C9_RunNeverCrashes ==
    /\ fpc # "crashed"
    /\ fpc = "render" => bedrock_results.kind # "unbound"

====
